---------------------------- MODULE Spec2Model ----------------------------
(***************************************************************************)
(* A model of ccache_stats_reader: the field registry (cache_field.rs),    *)
(* the leaf parser CacheLeaf::read_file, the directory aggregator          *)
(* CacheDir::read_dir and the two writers of CacheFieldCollection (lib.rs).*)
(*                                                                         *)
(* Text is a sequence of one-character strings where the code inspects it  *)
(* character by character (the bytes of a stats file), and a TLA+ string   *)
(* where the code only produces it (the lines handed to a sink).           *)
(***************************************************************************)
EXTENDS Integers, Sequences, FiniteSets

(***************************************************************************)
(* Bounds of the model.  u64 is modelled as an unsigned integer of         *)
(* WordBits bits, so that the largest value, and the first one that does   *)
(* not fit, are within reach of the checker.                               *)
(***************************************************************************)
WordBits == 4
MaxLines == 33
MaxMtime == 2

U64_MOD == 2 ^ WordBits
U64_MAX == U64_MOD - 1
I64_MAX == 2 ^ (WordBits - 1) - 1
\* chrono's representable range of seconds is far narrower than i64's.
CHRONO_MAX == 2 ^ (WordBits - 2)

(***************************************************************************)
(* cache_field.rs: the registry.                                           *)
(***************************************************************************)
FLAG_NONE == 0
FLAG_NOZERO == 1
FLAG_ALWAYS == 2
FLAG_NEVER == 4

None == 0
StdOut == 1
Status == 2
Error == 3
ToCache == 4
PreProcessor == 5
Compiler == 6
Missing == 7
CacheHitCpp == 8
Args == 9
Link == 10
NumFiles == 11
TotalSize == 12
ObsoleteMaxFiles == 13
ObsoleteMaxSize == 14
SourceLang == 15
BadOutputFile == 16
NoInput == 17
Multiple == 18
ConfTest == 19
UnsupportedOption == 20
OutStdOut == 21
CacheHitDir == 22
NoOutput == 23
EmptyOutput == 24
BadExtraFile == 25
CompCheck == 26
CantUsePch == 27
PreProcessing == 28
NumCleanUps == 29
UnsupportedDirective == 30
ZeroTimeStamp == 31

CacheField == 0 .. 31

as_usize(f) == f

SIZE_SCALE_THRESHOLD == 10
SIZE_PRECISION == 2

\* flags: u8 bit set; a | b of disjoint bits is their sum.
Meta(i, m, fmt, fl) == [id |-> i, message |-> m, format |-> fmt, flags |-> fl]

metadata(f) ==
  CASE f = ZeroTimeStamp -> Meta("stats_zeroed_timestamp", "stats zeroed", "TimeStamp", FLAG_ALWAYS)
    [] f = CacheHitDir -> Meta("direct_cache_hit", "cache hit (direct)", "None", FLAG_ALWAYS)
    [] f = CacheHitCpp -> Meta("preprocessed_cache_hit", "cache hit (preprocessed)", "None", FLAG_ALWAYS)
    [] f = ToCache -> Meta("cache_miss", "cache miss", "None", FLAG_ALWAYS)
    [] f = Link -> Meta("called_for_link", "called for link", "None", FLAG_ALWAYS)
    [] f = PreProcessing -> Meta("called_for_preprocessing", "called for preprocessing", "None", FLAG_ALWAYS)
    [] f = Multiple -> Meta("multiple_source_files", "multiple source files", "None", FLAG_NONE)
    [] f = StdOut -> Meta("compiler_produced_stdout", "compiler produced stdout", "None", FLAG_NONE)
    [] f = NoOutput -> Meta("compiler_produced_no_output", "compiler produced no output", "None", FLAG_NONE)
    [] f = EmptyOutput -> Meta("compiler_produced_empty_output", "compiler produced empty output", "None", FLAG_NONE)
    [] f = Status -> Meta("compile_failed", "compile failed", "None", FLAG_NONE)
    [] f = Error -> Meta("internal_error", "ccache internal error", "None", FLAG_NONE)
    [] f = PreProcessor -> Meta("preprocessor_error", "preprocessor error", "None", FLAG_NONE)
    [] f = CantUsePch -> Meta("could_not_use_precompiled_header", "can't use precompiled header", "None", FLAG_NONE)
    [] f = Compiler -> Meta("could_not_find_compiler", "couldn't find the compiler", "None", FLAG_NONE)
    [] f = Missing -> Meta("missing_cache_file", "cache file missing", "None", FLAG_NONE)
    [] f = Args -> Meta("bad_compiler_arguments", "bad compiler arguments", "None", FLAG_NONE)
    [] f = SourceLang -> Meta("unsupported_source_language", "unsupported source language", "None", FLAG_NONE)
    [] f = CompCheck -> Meta("compiler_check_failed", "compiler check failed", "None", FLAG_NONE)
    [] f = ConfTest -> Meta("autoconf_test", "autoconf compile/link", "None", FLAG_NONE)
    [] f = UnsupportedOption -> Meta("unsupported_compiler_option", "unsupported compiler option", "None", FLAG_NONE)
    [] f = UnsupportedDirective -> Meta("unsupported_code_directive", "unsupported code directive", "None", FLAG_NONE)
    [] f = OutStdOut -> Meta("output_to_stdout", "output to stdout", "None", FLAG_NONE)
    [] f = BadOutputFile -> Meta("bad_output_file", "could not write to output file", "None", FLAG_NONE)
    [] f = NoInput -> Meta("no_input_file", "no input file", "None", FLAG_NONE)
    [] f = BadExtraFile -> Meta("error_hashing_extra_file", "error hashing extra file", "None", FLAG_NONE)
    [] f = NumCleanUps -> Meta("cleanups_performed", "cleanups performed", "None", FLAG_ALWAYS)
    [] f = NumFiles -> Meta("files_in_cache", "files in cache", "None", FLAG_NOZERO + FLAG_ALWAYS)
    [] f = TotalSize -> Meta("cache_size_kibibyte", "cache size", "SizeTimes1024", FLAG_NOZERO + FLAG_ALWAYS)
    [] f = ObsoleteMaxFiles -> Meta("obsolete_max_files", "(obsolete) max files", "None", FLAG_NOZERO + FLAG_NEVER)
    [] f = ObsoleteMaxSize -> Meta("obsolete_max_size", "(obsolete) max size", "None", FLAG_NOZERO + FLAG_NEVER)
    [] f = None -> Meta("internal_none", "(internal) none", "None", FLAG_NONE + FLAG_NEVER)

\* self.flags & FLAG == FLAG, for a single-bit FLAG
HasBit(flags, bit) == (flags \div bit) % 2 = 1

\* mutant: tests the wrong bit
is_flag_always_wrong_bit(m) == HasBit(m.flags, FLAG_NOZERO)

is_flag_always(m) == HasBit(m.flags, FLAG_ALWAYS)

\* mutant: tests the wrong bit
is_flag_never_wrong_bit(m) == HasBit(m.flags, FLAG_NOZERO)

is_flag_never(m) == HasBit(m.flags, FLAG_NEVER)

\* mutant: one entry too many, None a second time at the end
FIELD_DATA_ORDER_extra ==
  << None, StdOut, Status, Error, ToCache, PreProcessor, Compiler, Missing,
     CacheHitCpp, Args, Link, NumFiles, TotalSize, ObsoleteMaxFiles,
     ObsoleteMaxSize, SourceLang, BadOutputFile, NoInput, Multiple, ConfTest,
     UnsupportedOption, OutStdOut, CacheHitDir, NoOutput, EmptyOutput,
     BadExtraFile, CompCheck, CantUsePch, PreProcessing, NumCleanUps,
     UnsupportedDirective, ZeroTimeStamp, None >>

\* mutant: StdOut and Status change places
FIELD_DATA_ORDER_swapped ==
  << None, Status, StdOut, Error, ToCache, PreProcessor, Compiler, Missing,
     CacheHitCpp, Args, Link, NumFiles, TotalSize, ObsoleteMaxFiles,
     ObsoleteMaxSize, SourceLang, BadOutputFile, NoInput, Multiple, ConfTest,
     UnsupportedOption, OutStdOut, CacheHitDir, NoOutput, EmptyOutput,
     BadExtraFile, CompCheck, CantUsePch, PreProcessing, NumCleanUps,
     UnsupportedDirective, ZeroTimeStamp >>

FIELD_DATA_ORDER ==
  << None, StdOut, Status, Error, ToCache, PreProcessor, Compiler, Missing,
     CacheHitCpp, Args, Link, NumFiles, TotalSize, ObsoleteMaxFiles,
     ObsoleteMaxSize, SourceLang, BadOutputFile, NoInput, Multiple, ConfTest,
     UnsupportedOption, OutStdOut, CacheHitDir, NoOutput, EmptyOutput,
     BadExtraFile, CompCheck, CantUsePch, PreProcessing, NumCleanUps,
     UnsupportedDirective, ZeroTimeStamp >>

\* mutant: CacheHitDir is listed twice and CacheHitCpp is left out
FIELD_DISPLAY_ORDER_dup ==
  << ZeroTimeStamp, CacheHitDir, CacheHitDir, ToCache, Link, PreProcessing,
     Multiple, StdOut, NoOutput, EmptyOutput, Status, Error, PreProcessor,
     CantUsePch, Compiler, Missing, Args, SourceLang, CompCheck, ConfTest,
     UnsupportedOption, UnsupportedDirective, OutStdOut, BadOutputFile,
     NoInput, BadExtraFile, NumCleanUps, NumFiles, TotalSize,
     ObsoleteMaxFiles, ObsoleteMaxSize, None >>

FIELD_DISPLAY_ORDER ==
  << ZeroTimeStamp, CacheHitDir, CacheHitCpp, ToCache, Link, PreProcessing,
     Multiple, StdOut, NoOutput, EmptyOutput, Status, Error, PreProcessor,
     CantUsePch, Compiler, Missing, Args, SourceLang, CompCheck, ConfTest,
     UnsupportedOption, UnsupportedDirective, OutStdOut, BadOutputFile,
     NoInput, BadExtraFile, NumCleanUps, NumFiles, TotalSize,
     ObsoleteMaxFiles, ObsoleteMaxSize, None >>

(***************************************************************************)
(* CacheFieldData: items: [u64; 32], indexed by the field's ordinal.       *)
(***************************************************************************)
CacheFieldData_default == [i \in CacheField |-> 0]

\* mutant: adds to the slot where the code assigns
set_field_adds(items, f, v) ==
  [items EXCEPT ![as_usize(f)] = (@ + v) % U64_MOD]

set_field(items, f, v) == [items EXCEPT ![as_usize(f)] = v]

get_field(items, f) == items[as_usize(f)]


(***************************************************************************)
(* Text.  A character is a one-character string; the bytes of a file and   *)
(* the read buffer are sequences of characters.                            *)
(***************************************************************************)
DigitChars == <<"0", "1", "2", "3", "4", "5", "6", "7", "8", "9">>

IsDigit(c) == \E d \in 1 .. 10 : DigitChars[d] = c

DigitVal(c) == (CHOOSE d \in 1 .. 10 : DigitChars[d] = c) - 1

RECURSIVE ToChars(_)
\* u64's Display: the decimal digits, no sign, no leading zero
ToChars(v) ==
  IF v < 10 THEN << DigitChars[v + 1] >>
  ELSE ToChars(v \div 10) \o << DigitChars[(v % 10) + 1] >>

RECURSIVE Join(_)
Join(cs) == IF cs = << >> THEN "" ELSE Head(cs) \o Join(Tail(cs))

to_string(v) == Join(ToChars(v))

RECURSIVE parse_digits(_, _)
\* the digit loop of u64's FromStr: checked_mul(10) then checked_add(digit)
parse_digits(s, acc) ==
  IF s = << >> THEN [ok |-> TRUE, v |-> acc]
  ELSE IF ~IsDigit(Head(s)) THEN [ok |-> FALSE, v |-> 0]
  ELSE LET n == acc * 10 + DigitVal(Head(s))
       IN  IF n > U64_MAX THEN [ok |-> FALSE, v |-> 0]
           ELSE parse_digits(Tail(s), n)

\* buf.parse::<u64>(): empty is an error, one leading '+' is accepted, a '-'
\* is an invalid digit for an unsigned type, nothing is trimmed.
parse_u64(s) ==
  IF s = << >> THEN [ok |-> FALSE, v |-> 0]
  ELSE LET digits == IF Head(s) = "+" THEN Tail(s) ELSE s
       IN  IF digits = << >> THEN [ok |-> FALSE, v |-> 0]
           ELSE parse_digits(digits, 0)

ends_with(buf, c) == Len(buf) > 0 /\ buf[Len(buf)] = c

pop(buf) == SubSeq(buf, 1, Len(buf) - 1)

\* mutant: pops a trailing '\r' also when no '\n' followed it
trim_line_any_cr(buf) ==
  LET b1 == IF ends_with(buf, "\n") THEN pop(buf) ELSE buf
  IN  IF ends_with(b1, "\r") THEN pop(b1) ELSE b1

\* lib.rs 198-203: one trailing '\n', and then one '\r' before it
trim_line(buf) ==
  IF ends_with(buf, "\n")
  THEN LET b1 == pop(buf) IN IF ends_with(b1, "\r") THEN pop(b1) ELSE b1
  ELSE buf

RECURSIVE LineEnd(_, _)
\* the index of the first '\n' at or after i, or Len(s) when there is none
LineEnd(s, i) ==
  IF i >= Len(s) THEN Len(s)
  ELSE IF s[i] = "\n" THEN i ELSE LineEnd(s, i + 1)

\* BufRead::read_line on an empty buffer: appends the bytes up to and
\* including the next '\n' (or to the end of the file), returns their number
read_line(rest) ==
  LET n == IF rest = << >> THEN 0 ELSE LineEnd(rest, 1)
  IN  [n |-> n, buf |-> SubSeq(rest, 1, n), rest |-> SubSeq(rest, n + 1, Len(rest))]

(***************************************************************************)
(* Errors and results.                                                     *)
(***************************************************************************)
NoError == [kind |-> "none", io |-> "", input_value |-> << >>, input_line |-> 0, input_path |-> -1]

IoError(k) == [NoError EXCEPT !.kind = "IoError", !.io = k]

SysTime == [NoError EXCEPT !.kind = "SysTime"]

\* mutant: reports the line 1-based
ParseU64Error_one_based(line, value, file) ==
  [NoError EXCEPT !.kind = "ParseU64Error", !.input_line = line + 1,
                  !.input_value = value, !.input_path = file]

ParseU64Error(line, value, file) ==
  [NoError EXCEPT !.kind = "ParseU64Error", !.input_line = line,
                  !.input_value = value, !.input_path = file]

CacheLeafNonFile(path) == [NoError EXCEPT !.kind = "CacheLeafNonFile", !.input_path = path]

\* Utc.timestamp(0, 0) and all-zero fields
CacheLeaf_default == [fields |-> CacheFieldData_default, mtime |-> 0]

CacheDir_default == [fields |-> CacheFieldData_default, mtime |-> 0]

Ok(l) == [ok |-> TRUE, leaf |-> l, err |-> NoError]

Err(e) == [ok |-> FALSE, leaf |-> CacheLeaf_default, err |-> e]

(***************************************************************************)
(* CacheDir: the merge.  checks is the build's overflow-checks setting: a  *)
(* u64 addition that overflows panics with it, and wraps without it.       *)
(***************************************************************************)
\* mutant: the last ZeroTimeStamp read wins
stash_field_last_wins(fields, field, value, checks) ==
  LET current_value == get_field(fields, field)
  IN  IF field = ZeroTimeStamp
      THEN [panic |-> FALSE, fields |-> set_field(fields, field, value)]
      ELSE IF current_value + value > U64_MAX /\ checks
           THEN [panic |-> TRUE, fields |-> fields]
           ELSE [panic |-> FALSE,
                 fields |-> set_field(fields, field, (current_value + value) % U64_MOD)]

stash_field(fields, field, value, checks) ==
  LET current_value == get_field(fields, field)
  IN  IF field = ZeroTimeStamp
      THEN [panic |-> FALSE,
            fields |-> IF value > current_value
                       THEN set_field(fields, field, value) ELSE fields]
      ELSE IF current_value + value > U64_MAX /\ checks
           THEN [panic |-> TRUE, fields |-> fields]
           ELSE [panic |-> FALSE,
                 fields |-> set_field(fields, field, (current_value + value) % U64_MOD)]

RECURSIVE merge_fields(_, _, _, _)
\* the loop of merge_leaf over FIELD_DATA_ORDER, from position i
merge_fields(fields, leaf, i, checks) ==
  IF i > Len(FIELD_DATA_ORDER) THEN [panic |-> FALSE, fields |-> fields]
  ELSE LET field == FIELD_DATA_ORDER[i]
           r == stash_field(fields, field, get_field(leaf.fields, field), checks)
       IN  IF r.panic THEN r ELSE merge_fields(r.fields, leaf, i + 1, checks)

\* mutant: the last leaf's mtime wins
merge_mtime_last(self, leaf) == leaf.mtime

merge_mtime(self, leaf) == IF self.mtime < leaf.mtime THEN leaf.mtime ELSE self.mtime

merge_leaf(self, leaf, checks) ==
  LET r == merge_fields(self.fields, leaf, 1, checks)
  IN  [panic |-> r.panic,
       me |-> IF r.panic THEN self
              ELSE [fields |-> r.fields, mtime |-> merge_mtime(self, leaf)]]


(***************************************************************************)
(* CacheField::format_value.  The result is a string, or a panic: chrono's *)
(* Local.timestamp panics for seconds outside its range.                   *)
(***************************************************************************)
LocalTime(ts) == "<local time of " \o to_string(ts) \o ">"

TwoDigits(n) == to_string(n \div 10) \o to_string(n % 10)

\* mutant: cuts the digits after the second decimal off
Fixed2_truncates(num, den) ==
  LET h == (num * 100) \div den
  IN  to_string(h \div 100) \o "." \o TwoDigits(h % 100)

\* format!("{:.2}", num / den) of an exactly represented quotient: the
\* hundredths, ties to even
Fixed2(num, den) ==
  LET q == (num * 100) \div den
      r == (num * 100) % den
      h == IF 2 * r > den \/ (2 * r = den /\ q % 2 = 1) THEN q + 1 ELSE q
  IN  to_string(h \div 100) \o "." \o TwoDigits(h % 100)

format_value(field, value) ==
  LET fmt == metadata(field).format
  IN  CASE fmt = "None" -> [panic |-> FALSE, s |-> to_string(value)]
        [] fmt = "TimeStamp" ->
             IF value <= I64_MAX
             THEN IF value > CHRONO_MAX THEN [panic |-> TRUE, s |-> ""]
                  ELSE [panic |-> FALSE, s |-> LocalTime(value)]
             ELSE [panic |-> FALSE, s |-> to_string(value) \o " (ts)"]
        [] fmt = "SizeTimes1024" ->
             IF value < 1024 * SIZE_SCALE_THRESHOLD
             THEN [panic |-> FALSE, s |-> to_string(value) \o " Kb"]
             ELSE IF value < 1024 * 1024 * SIZE_SCALE_THRESHOLD
             THEN [panic |-> FALSE, s |-> Fixed2(value, 1024) \o " Mb"]
             ELSE [panic |-> FALSE, s |-> Fixed2(value, 1024 * 1024) \o " Gb"]

(***************************************************************************)
(* CacheFieldCollection: iter, write_raw, write_pretty.  A collection is a *)
(* CacheLeaf or a CacheDir: [fields, mtime].  A sink accepts its first     *)
(* limit lines and fails on the next; a limit of -1 never fails.           *)
(***************************************************************************)
\* mutant: walks the fields in the order of the stats file
iter_data_order(c) ==
  [i \in 1 .. Len(FIELD_DATA_ORDER) |->
     << FIELD_DATA_ORDER[i], get_field(c.fields, FIELD_DATA_ORDER[i]) >>]

iter(c) ==
  [i \in 1 .. Len(FIELD_DISPLAY_ORDER) |->
     << FIELD_DISPLAY_ORDER[i], get_field(c.fields, FIELD_DISPLAY_ORDER[i]) >>]

RECURSIVE Spaces(_)
Spaces(n) == IF n <= 0 THEN "" ELSE " " \o Spaces(n - 1)

\* {:<30} and {:>9}: pad to the width, never truncate
PadRight(str, w) == str \o Spaces(w - Len(str))

PadLeft(str, w) == Spaces(w - Len(str)) \o str

SinkFull(out, limit) == limit >= 0 /\ Len(out) >= limit

RECURSIVE write_raw_loop(_, _, _, _)
write_raw_loop(it, i, out, limit) ==
  IF i > Len(it) THEN [out |-> out, res |-> "Ok"]
  ELSE LET field == it[i][1]
           value == it[i][2]
       IN  IF is_flag_never(metadata(field))
           THEN write_raw_loop(it, i + 1, out, limit)
           ELSE IF SinkFull(out, limit) THEN [out |-> out, res |-> "IoError"]
           ELSE write_raw_loop(it, i + 1,
                  Append(out, metadata(field).id \o "\t" \o to_string(value)), limit)

write_raw(c, limit) ==
  IF SinkFull(<< >>, limit) THEN [out |-> << >>, res |-> "IoError"]
  ELSE write_raw_loop(iter(c), 1,
         << "stats_updated_timestamp\t" \o to_string(c.mtime) >>, limit)

PrettyLine(label, text) == PadRight(label, 30) \o " " \o PadLeft(text, 9)

RECURSIVE write_pretty_loop(_, _, _, _)
write_pretty_loop(it, i, out, limit) ==
  IF i > Len(it) THEN [out |-> out, res |-> "Ok"]
  ELSE LET field == it[i][1]
           value == it[i][2]
           meta == metadata(field)
           text == format_value(field, value)
       IN  IF is_flag_never(meta) THEN write_pretty_loop(it, i + 1, out, limit)
           ELSE IF ~is_flag_always(meta) /\ value = 0
           THEN write_pretty_loop(it, i + 1, out, limit)
           ELSE IF text.panic THEN [out |-> out, res |-> "panic"]
           ELSE IF SinkFull(out, limit) THEN [out |-> out, res |-> "IoError"]
           ELSE write_pretty_loop(it, i + 1,
                  Append(out, PrettyLine(meta.message, text.s)), limit)

write_pretty(c, limit) ==
  IF SinkFull(<< >>, limit) THEN [out |-> << >>, res |-> "IoError"]
  ELSE write_pretty_loop(iter(c), 1,
         << PrettyLine("stats updated", LocalTime(c.mtime)) >>, limit)

(***************************************************************************)
(* The file system a read meets.  Path i is dir/stats for i = 0 and        *)
(* dir/<h>/stats for the hex digit h = i - 1 otherwise.  An object is what *)
(* File::open, metadata() and read_line answer for a path.                 *)
(***************************************************************************)
NumCandidates == 17

Paths == 0 .. NumCandidates - 1

Obj(open, is_dir, meta_err, mtime, bytes, read_err_at) ==
  [open |-> open, is_dir |-> is_dir, meta_err |-> meta_err, mtime |-> mtime,
   bytes |-> bytes, read_err_at |-> read_err_at]

NotFoundObj == Obj("NotFound", FALSE, FALSE, 0, << >>, -1)

DeniedObj == Obj("PermissionDenied", FALSE, FALSE, 0, << >>, -1)

DirObj == Obj("Ok", TRUE, FALSE, 1, << >>, 0)

MetaErrObj == Obj("Ok", FALSE, TRUE, 1, << >>, -1)

RECURSIVE FileBytes(_, _, _, _, _, _, _)
\* n lines: line p is s and every other line is d; each line ends with
\* term, the last one with last
FileBytes(i, n, d, p, s, term, last) ==
  IF i >= n THEN << >>
  ELSE (IF i = p THEN s ELSE d) \o (IF i = n - 1 THEN last ELSE term)
         \o FileBytes(i + 1, n, d, p, s, term, last)

FileObj(mtime, bytes, read_err_at) == Obj("Ok", FALSE, FALSE, mtime, bytes, read_err_at)

LF == << "\n" >>

CRLF == << "\r", "\n" >>

SpecialTexts ==
  { << "5" >>, << "0", "0", "7" >>, << "+", "5" >>, << "+" >>, << >>, << "x" >>,
    << "5", " " >>, << " ", "5" >>, << "5", "\r" >>, << "-", "1" >>,
    ToChars(U64_MAX), ToChars(U64_MAX + 1) }

NumFields == Len(FIELD_DATA_ORDER)

SpecialPos(n) == {0, n - 1, NumFields - 1} \cap (0 .. n - 1)

\* the files a single read_file is given
LeafFiles ==
  { FileObj(1, FileBytes(0, t[1], << "3" >>, t[2], t[3], t[4], t[5]), -1) :
      t \in { u \in (0 .. MaxLines) \X (0 .. MaxLines) \X SpecialTexts
                     \X {LF, CRLF} \X {<< >>, LF, CRLF} :
                /\ u[2] \in SpecialPos(u[1])
                /\ u[5] \in {<< >>, u[4]} } }
  \cup { FileObj(1, << >>, -1) }
  \cup { FileObj(m, << "5", "\n" >>, -1) : m \in -1 .. MaxMtime }
  \cup { FileObj(1, FileBytes(0, n, << "1" >>, -1, << >>, LF, LF), e) :
           n \in {0, 2, MaxLines}, e \in {0, 1, NumFields} }

LeafObjects == LeafFiles \cup {NotFoundObj, DeniedObj, DirObj, MetaErrObj}

FullFile(mtime, d, z) ==
  FileObj(mtime, FileBytes(0, NumFields, d, NumFields - 1, z, LF, LF), -1)

\* what a candidate path of a directory read may hold, when it holds anything
DirObjects ==
  { DeniedObj, DirObj,
    FullFile(1, << "5" >>, << "3" >>),
    FullFile(2, << "3" >>, << "5" >>),
    FullFile(0, ToChars(U64_MAX), << "1" >>),
    FileObj(MaxMtime, FileBytes(0, 2, << "1" >>, -1, << >>, CRLF, << >>), -1),
    FileObj(1, FileBytes(0, 3, << "2" >>, 1, << "x" >>, LF, LF), -1),
    FileObj(2, FileBytes(0, 2, << "1" >>, -1, << >>, LF, LF), 1) }

\* which candidates exist: the others are not found
PresentSets == { {}, {0}, {7}, {16}, {0, 1}, {0, 16}, {3, 4}, {0, 8, 16} }

DirLayouts ==
  UNION { { [p \in Paths |-> IF p \in S THEN g[p] ELSE NotFoundObj] :
              g \in [S -> DirObjects] } : S \in PresentSets }


(***************************************************************************)
(* CacheLeaf::read_file, in two parts: what precedes the loop, and one     *)
(* iteration of the loop.                                                  *)
(***************************************************************************)
\* mutant: no is_dir test
read_file_head_no_dir_check(o, path) ==
  IF o.open # "Ok" THEN [ok |-> FALSE, err |-> IoError(o.open), leaf |-> CacheLeaf_default]
  ELSE IF o.meta_err THEN [ok |-> FALSE, err |-> IoError("Other"), leaf |-> CacheLeaf_default]
  ELSE IF o.mtime < 0 THEN [ok |-> FALSE, err |-> SysTime, leaf |-> CacheLeaf_default]
  ELSE [ok |-> TRUE, err |-> NoError, leaf |-> [CacheLeaf_default EXCEPT !.mtime = o.mtime]]

\* lib.rs 114-157: File::open(&f)?, metadata()?, the is_dir test, and the
\* modification time (duration_since fails for a time before the epoch)
read_file_head(o, path) ==
  IF o.open # "Ok" THEN [ok |-> FALSE, err |-> IoError(o.open), leaf |-> CacheLeaf_default]
  ELSE IF o.meta_err THEN [ok |-> FALSE, err |-> IoError("Other"), leaf |-> CacheLeaf_default]
  ELSE IF o.is_dir THEN [ok |-> FALSE, err |-> CacheLeafNonFile(path), leaf |-> CacheLeaf_default]
  ELSE IF o.mtime < 0 THEN [ok |-> FALSE, err |-> SysTime, leaf |-> CacheLeaf_default]
  ELSE [ok |-> TRUE, err |-> NoError, leaf |-> [CacheLeaf_default EXCEPT !.mtime = o.mtime]]

\* mutant: no Ok(0) arm, the end of the file is parsed as an empty line
read_file_step_no_eof(me_leaf, bytes, field, io_err, path) ==
  LET r == read_line(bytes)
      buf == trim_line(r.buf)
      v == parse_u64(buf)
  IN  IF io_err
      THEN [kind |-> "err", err |-> IoError("InvalidData"), leaf |-> me_leaf, rest |-> bytes]
      ELSE IF v.ok
      THEN [kind |-> "set", err |-> NoError, rest |-> r.rest,
            leaf |-> [me_leaf EXCEPT !.fields = set_field(me_leaf.fields, field, v.v)]]
      ELSE [kind |-> "err", err |-> ParseU64Error(as_usize(field), buf, path),
            leaf |-> me_leaf, rest |-> r.rest]

\* lib.rs 186-217: read_line, then break on Ok(0), return on Err, or trim,
\* parse and set the field.  io_err: this read_line call fails.
read_file_step(me_leaf, bytes, field, io_err, path) ==
  LET r == read_line(bytes)
      buf == trim_line(r.buf)
      v == parse_u64(buf)
  IN  IF io_err
      THEN [kind |-> "err", err |-> IoError("InvalidData"), leaf |-> me_leaf, rest |-> bytes]
      ELSE IF r.n = 0
      THEN [kind |-> "break", err |-> NoError, leaf |-> me_leaf, rest |-> bytes]
      ELSE IF v.ok
      THEN [kind |-> "set", err |-> NoError, rest |-> r.rest,
            leaf |-> [me_leaf EXCEPT !.fields = set_field(me_leaf.fields, field, v.v)]]
      ELSE [kind |-> "err", err |-> ParseU64Error(as_usize(field), buf, path),
            leaf |-> me_leaf, rest |-> r.rest]

(***************************************************************************)
(* State.                                                                  *)
(***************************************************************************)
VARIABLES
  mode,            \* "leaf": CacheLeaf::read_file(path 0); "dir": CacheDir::read_dir
  fs,              \* the object at each path
  overflow_checks, \* the build: TRUE panics on integer overflow, FALSE wraps
  pc,              \* "start", "open", "lines", "done", "failed", "panicked", "written"
  idx,             \* the path being read: the candidate of read_dir's loop
  me,              \* read_dir's CacheDir
  leaf,            \* read_file's CacheLeaf
  rest,            \* the bytes of the open file not yet read
  field_i,         \* how many fields of FIELD_DATA_ORDER the loop has passed
  line_reads,      \* read_line calls made on the file being read
  err,             \* the error returned, when pc = "failed"
  handles,         \* the paths whose File is open
  open_log,        \* the paths File::open was called on, in order
  merged,          \* the leaves merge_leaf was given, with their paths, in order
  out,             \* the lines the sink received
  wres,            \* the writer that ran and its result
  iters,           \* what each call of iter() on the result yielded, in order
  store,           \* a CacheFieldData that set_field is called on
  last_set,        \* the last set_field call on store, and the store before it
  fmt_in,          \* the field and the value format_value is called with
  fmt_out,         \* what that call of format_value did
  mon_pc,          \* the monitor: "start", "loop", "unwrap_panic", "sub_panic"
  cd,              \* the monitor's cd: the snapshot of the round before
  new_cd,          \* the monitor's new_cd: the snapshot read last
  prev_cd,         \* what cd was when the last round began
  reports,         \* the lines the last round printed
  rounds           \* the rounds of the monitor's loop begun so far

vars ==
  << mode, fs, overflow_checks, pc, idx, me, leaf, rest, field_i, line_reads,
     err, handles, open_log, merged, out, wres, iters, store, last_set,
     fmt_in, fmt_out, mon_pc, cd, new_cd, prev_cd, reports, rounds >>

\* the variables of the monitor
mon_vars == << mon_pc, cd, new_cd, prev_cd, reports, rounds >>

\* the monitor is not running
MonitorIdle ==
  /\ mon_pc = "start"
  /\ cd = CacheDir_default
  /\ new_cd = CacheDir_default
  /\ prev_cd = CacheDir_default
  /\ reports = << >>
  /\ rounds = 0

\* the variables of the calls on a CacheFieldData and of format_value alone
unit_vars == << store, last_set, fmt_in, fmt_out >>

NoSet == [field |-> None, value |-> 0, before |-> CacheFieldData_default, calls |-> 0]

NoFormat == [done |-> FALSE, panic |-> FALSE, s |-> ""]

NoWrite == [writer |-> "none", res |-> "none"]

Init ==
  /\ \/ mode = "leaf" /\ overflow_checks = FALSE
        /\ fs \in { [p \in Paths |-> IF p = 0 THEN o ELSE NotFoundObj] : o \in LeafObjects }
     \/ mode = "dir" /\ overflow_checks \in BOOLEAN /\ fs \in DirLayouts
  /\ pc = "start"
  /\ idx = 0
  /\ me = CacheDir_default
  /\ leaf = CacheLeaf_default
  /\ rest = << >>
  /\ field_i = 0
  /\ line_reads = 0
  /\ err = NoError
  /\ handles = {}
  /\ open_log = << >>
  /\ merged = << >>
  /\ out = << >>
  /\ wres = NoWrite
  /\ iters = << >>
  /\ store = CacheFieldData_default
  /\ last_set = NoSet
  /\ fmt_in = [field |-> None, value |-> 0]
  /\ fmt_out = NoFormat
  /\ MonitorIdle

(***************************************************************************)
(* CacheDir::add_leaf on read_file's result, and the rest of read_dir's    *)
(* loop: an error returns from read_dir, anything else moves to the next   *)
(* candidate, and after the last one read_dir returns Ok(me).              *)
(***************************************************************************)
\* mutant: the loop does not move on to the next candidate
NextCandidate_no_advance == pc' = "open" /\ idx' = idx

NextCandidate ==
  IF idx = NumCandidates - 1
  THEN pc' = "done" /\ idx' = idx
  ELSE pc' = "open" /\ idx' = idx + 1

\* mutant: compares with the wrong io::ErrorKind
is_not_found_wrong_kind(e) == e.kind = "IoError" /\ e.io = "PermissionDenied"

\* mutant: every I/O error is taken for "not found"
is_not_found_any_io(e) == e.kind = "IoError"

is_not_found(e) == e.kind = "IoError" /\ e.io = "NotFound"

add_leaf(res) ==
  IF res.ok
  THEN LET m == merge_leaf(me, res.leaf, overflow_checks)
       IN  IF m.panic
           THEN pc' = "panicked" /\ UNCHANGED << idx, me, err, merged >>
           ELSE /\ me' = m.me
                /\ merged' = Append(merged, [path |-> idx, leaf |-> res.leaf])
                /\ err' = err
                /\ NextCandidate
  ELSE IF is_not_found(res.err)
  THEN NextCandidate /\ UNCHANGED << me, err, merged >>
  ELSE pc' = "failed" /\ err' = res.err /\ UNCHANGED << idx, me, merged >>

\* read_file returns res to its caller
Return(res) ==
  IF mode = "leaf"
  THEN /\ pc' = IF res.ok THEN "done" ELSE "failed"
       /\ err' = res.err
       /\ UNCHANGED << idx, me, merged >>
  ELSE add_leaf(res)

\* the caller calls read_file(path 0) or read_dir, which starts with
\* add_leaf(dir/stats)
Call ==
  /\ pc = "start"
  /\ pc' = "open"
  /\ UNCHANGED << mode, fs, overflow_checks, idx, me, leaf, rest, field_i,
                  line_reads, err, handles, open_log, merged, out, wres >>
  /\ UNCHANGED << iters, unit_vars >>
  /\ UNCHANGED mon_vars

\* read_file up to its loop: File::open, metadata, is_dir, modified
OpenFile ==
  /\ pc = "open"
  /\ open_log' = Append(open_log, idx)
  /\ line_reads' = 0
  /\ field_i' = 0
  /\ LET h == read_file_head(fs[idx], idx)
     IN  IF h.ok
         THEN /\ leaf' = h.leaf
              /\ rest' = fs[idx].bytes
              /\ handles' = handles \cup {idx}
              /\ pc' = "lines"
              /\ UNCHANGED << idx, me, err, merged >>
         ELSE Return(Err(h.err)) /\ UNCHANGED << leaf, rest, handles >>
  /\ UNCHANGED << mode, fs, overflow_checks, out, wres, iters, unit_vars >>
  /\ UNCHANGED mon_vars

\* one iteration of read_file's loop over FIELD_DATA_ORDER; the File is
\* dropped when read_file returns
ReadLine ==
  /\ pc = "lines"
  /\ line_reads' = line_reads + 1
  /\ LET field == FIELD_DATA_ORDER[field_i + 1]
         st == read_file_step(leaf, rest, field, fs[idx].read_err_at = line_reads, idx)
     IN  /\ rest' = st.rest
         /\ leaf' = st.leaf
         /\ IF st.kind = "err"
            THEN Return(Err(st.err)) /\ handles' = handles \ {idx} /\ field_i' = field_i
            ELSE IF st.kind = "break"
            THEN Return(Ok(st.leaf)) /\ handles' = handles \ {idx} /\ field_i' = field_i
            ELSE IF field_i + 1 = Len(FIELD_DATA_ORDER)
            THEN Return(Ok(st.leaf)) /\ handles' = handles \ {idx} /\ field_i' = field_i + 1
            ELSE field_i' = field_i + 1 /\ UNCHANGED << pc, idx, me, err, merged, handles >>
  /\ UNCHANGED << mode, fs, overflow_checks, open_log, out, wres, iters, unit_vars >>
  /\ UNCHANGED mon_vars

\* what the read returned: the CacheLeaf of read_file, the CacheDir of read_dir
Collection == IF mode = "leaf" THEN leaf ELSE me

SinkLimits == {-1, 0, 1, 3}

WriteRaw ==
  /\ pc = "done"
  /\ \E limit \in SinkLimits :
       LET w == write_raw(Collection, limit)
       IN  out' = w.out /\ wres' = [writer |-> "write_raw", res |-> w.res]
  /\ pc' = "written"
  /\ UNCHANGED << mode, fs, overflow_checks, idx, me, leaf, rest, field_i,
                  line_reads, err, handles, open_log, merged, iters, unit_vars >>
  /\ UNCHANGED mon_vars

WritePretty ==
  /\ pc = "done"
  /\ \E limit \in SinkLimits :
       LET w == write_pretty(Collection, limit)
       IN  out' = w.out /\ wres' = [writer |-> "write_pretty", res |-> w.res]
  /\ pc' = "written"
  /\ UNCHANGED << mode, fs, overflow_checks, idx, me, leaf, rest, field_i,
                  line_reads, err, handles, open_log, merged, iters, unit_vars >>
  /\ UNCHANGED mon_vars

(***************************************************************************)
(* The calls on a CacheFieldData alone: a caller that starts from          *)
(* CacheFieldData::default() and calls set_field on it.                    *)
(***************************************************************************)
\* nothing is read: the state of read_file / read_dir before any call
ReaderIdle ==
  /\ fs = [p \in Paths |-> NotFoundObj]
  /\ overflow_checks = FALSE
  /\ pc = "start"
  /\ idx = 0
  /\ me = CacheDir_default
  /\ leaf = CacheLeaf_default
  /\ rest = << >>
  /\ field_i = 0
  /\ line_reads = 0
  /\ err = NoError
  /\ handles = {}
  /\ open_log = << >>
  /\ merged = << >>
  /\ out = << >>
  /\ wres = NoWrite
  /\ iters = << >>

MaxSets == 2

StoreValues == {0, 5, U64_MAX}

InitStore ==
  /\ mode = "store"
  /\ ReaderIdle
  /\ store = CacheFieldData_default
  /\ last_set = NoSet
  /\ fmt_in = [field |-> None, value |-> 0]
  /\ fmt_out = NoFormat
  /\ MonitorIdle

SetField ==
  /\ mode = "store"
  /\ last_set.calls < MaxSets
  /\ \E f \in CacheField, v \in StoreValues :
       /\ store' = set_field(store, f, v)
       /\ last_set' = [field |-> f, value |-> v, before |-> store,
                       calls |-> last_set.calls + 1]
  /\ UNCHANGED << mode, fs, overflow_checks, pc, idx, me, leaf, rest, field_i,
                  line_reads, err, handles, open_log, merged, out, wres, iters,
                  fmt_in, fmt_out >>
  /\ UNCHANGED mon_vars

SpecStore == InitStore /\ [][SetField]_vars

(***************************************************************************)
(* format_value alone: a caller that formats one value of one field.  The  *)
(* sizes are the kibibyte counts themselves, not scaled to WordBits, since *)
(* the thresholds and divisors of the size format are the code's own; the  *)
(* values of the other fields cover the whole (scaled) u64 range.          *)
(***************************************************************************)
SizeValues ==
  { 0, 1, 100, 1000, 10000, 10239, 10240, 10245, 10368, 15000, 150000,
    1500000, 10485759, 10485760, 10490000, 15000000, 20000000 }

WordValues == 0 .. U64_MAX

FormatInputs ==
  { [field |-> f, value |-> v] : f \in CacheField \ {TotalSize}, v \in WordValues }
    \cup { [field |-> TotalSize, value |-> v] : v \in SizeValues }

InitFormat ==
  /\ mode = "format"
  /\ ReaderIdle
  /\ store = CacheFieldData_default
  /\ last_set = NoSet
  /\ fmt_in \in FormatInputs
  /\ fmt_out = NoFormat
  /\ MonitorIdle

Format ==
  /\ mode = "format"
  /\ ~fmt_out.done
  /\ LET r == format_value(fmt_in.field, fmt_in.value)
     IN  fmt_out' = [done |-> TRUE, panic |-> r.panic, s |-> r.s]
  /\ UNCHANGED << mode, fs, overflow_checks, pc, idx, me, leaf, rest, field_i,
                  line_reads, err, handles, open_log, merged, out, wres, iters,
                  store, last_set, fmt_in >>
  /\ UNCHANGED mon_vars

SpecFormat == InitFormat /\ [][Format]_vars

\* the caller walks the result with iter(), which borrows it: the result stays
\* as it is and can be iterated, or written, again
MaxIters == 2

Iterate ==
  /\ pc = "done"
  /\ Len(iters) < MaxIters
  /\ iters' = Append(iters, iter(Collection))
  /\ UNCHANGED << mode, fs, overflow_checks, pc, idx, me, leaf, rest, field_i,
                  line_reads, err, handles, open_log, merged, out, wres, unit_vars >>
  /\ UNCHANGED mon_vars

Next == Call \/ OpenFile \/ ReadLine \/ WriteRaw \/ WritePretty \/ Iterate

Spec == Init /\ [][Next]_vars

(***************************************************************************)
(* The monitor (examples/ccache_stats_monitor.rs): it reads the directory, *)
(* then again in every round of its loop, prints for each shown field      *)
(* whose value changed the old value, the new one and their difference,    *)
(* and keeps the new snapshot for the next round.  What read_dir returns   *)
(* is an input here: the directory changes between two reads.              *)
(***************************************************************************)
MaxRounds == 2

\* the fields that differ between the snapshots given to the monitor: the
\* first of FIELD_DISPLAY_ORDER, a counter, and a field that is never shown
MonFields == {ZeroTimeStamp, CacheHitDir, ObsoleteMaxFiles}

MonValues == {0, 3, U64_MAX}

Snapshots ==
  { [fields |-> [f \in CacheField |-> IF f \in MonFields THEN a[f] ELSE 0],
     mtime |-> 1] : a \in [MonFields -> MonValues] }

\* Result<CacheDir, ErrorKind>
ReadDirResults ==
  { [ok |-> TRUE, dir |-> s] : s \in Snapshots }
    \cup { [ok |-> FALSE, dir |-> CacheDir_default] }

\* a - b on u64: an underflow panics in a build with overflow checks and
\* wraps around in one without
sub_u64(a, b, checks) ==
  IF a >= b THEN [panic |-> FALSE, v |-> a - b]
  ELSE IF checks THEN [panic |-> TRUE, v |-> 0]
  ELSE [panic |-> FALSE, v |-> (a - b + U64_MOD) % U64_MOD]

RECURSIVE diff_loop(_, _, _, _, _)
\* the for loop over new_cd.iter(), from its i-th pair on
diff_loop(it, i, old_cd, acc, checks) ==
  IF i > Len(it) THEN [panic |-> FALSE, reports |-> acc]
  ELSE LET field == it[i][1]
           value == it[i][2]
           old == get_field(old_cd.fields, field)
       IN  IF is_flag_never(metadata(field)) \/ value = old
           THEN diff_loop(it, i + 1, old_cd, acc, checks)
           ELSE LET d == sub_u64(value, old, checks)
                IN  IF d.panic THEN [panic |-> TRUE, reports |-> acc]
                    ELSE diff_loop(it, i + 1, old_cd,
                                   Append(acc, [field |-> field, old |-> old,
                                                value |-> value, diff |-> d.v]),
                                   checks)

InitMonitor ==
  /\ mode = "monitor"
  /\ overflow_checks \in BOOLEAN
  /\ fs = [p \in Paths |-> NotFoundObj]
  /\ pc = "start"
  /\ idx = 0
  /\ me = CacheDir_default
  /\ leaf = CacheLeaf_default
  /\ rest = << >>
  /\ field_i = 0
  /\ line_reads = 0
  /\ err = NoError
  /\ handles = {}
  /\ open_log = << >>
  /\ merged = << >>
  /\ out = << >>
  /\ wres = NoWrite
  /\ iters = << >>
  /\ store = CacheFieldData_default
  /\ last_set = NoSet
  /\ fmt_in = [field |-> None, value |-> 0]
  /\ fmt_out = NoFormat
  /\ MonitorIdle

\* let mut cd = CacheDir::read_dir(&cache_path).unwrap()
MonitorStart ==
  /\ mode = "monitor"
  /\ mon_pc = "start"
  /\ \E r \in ReadDirResults :
       IF r.ok
       THEN mon_pc' = "loop" /\ cd' = r.dir
       ELSE mon_pc' = "unwrap_panic" /\ cd' = cd
  /\ UNCHANGED << new_cd, prev_cd, reports, rounds >>
  /\ UNCHANGED << mode, fs, overflow_checks, pc, idx, me, leaf, rest, field_i,
                  line_reads, err, handles, open_log, merged, out, wres, iters,
                  unit_vars >>

\* one round of the loop: read_dir, the for loop, cd = new_cd
MonitorRound ==
  /\ mode = "monitor"
  /\ mon_pc = "loop"
  /\ rounds < MaxRounds
  /\ rounds' = rounds + 1
  /\ \E r \in ReadDirResults :
       IF ~r.ok
       THEN mon_pc' = "unwrap_panic" /\ UNCHANGED << cd, new_cd, prev_cd, reports >>
       ELSE LET d == diff_loop(iter(r.dir), 1, cd, << >>, overflow_checks)
            IN  /\ new_cd' = r.dir
                /\ prev_cd' = cd
                /\ reports' = d.reports
                /\ IF d.panic
                   THEN mon_pc' = "sub_panic" /\ cd' = cd
                   ELSE mon_pc' = "loop" /\ cd' = r.dir
  /\ UNCHANGED << mode, fs, overflow_checks, pc, idx, me, leaf, rest, field_i,
                  line_reads, err, handles, open_log, merged, out, wres, iters,
                  unit_vars >>

SpecMonitor == InitMonitor /\ [][MonitorStart \/ MonitorRound]_vars


(***************************************************************************)
(* Properties.                                                             *)
(***************************************************************************)
MergedPaths == { merged[i].path : i \in 1 .. Len(merged) }

RECURSIVE SumOf(_, _)
\* the mathematical sum of field f over the leaves of ls
SumOf(ls, f) == IF ls = << >> THEN 0 ELSE Head(ls).leaf.fields[f] + SumOf(Tail(ls), f)

RECURSIVE MaxOf(_, _)
MaxOf(ls, f) ==
  IF ls = << >> THEN 0
  ELSE LET m == MaxOf(Tail(ls), f)
           v == Head(ls).leaf.fields[f]
       IN  IF v > m THEN v ELSE m

DirDone == mode = "dir" /\ pc = "done"

\* C1: after read_dir succeeds, every field other than ZeroTimeStamp holds
\* the sum of that field over the leaves read, and ZeroTimeStamp holds their
\* maximum.
C1_SumAndMax ==
  DirDone =>
    \A f \in CacheField :
      me.fields[f] = IF f = ZeroTimeStamp THEN MaxOf(merged, f) ELSE SumOf(merged, f)

\* C1, where no sum leaves the u64 range: the statement holds there.
C1_SumAndMaxInRange ==
  (DirDone /\ \A f \in CacheField : SumOf(merged, f) <= U64_MAX) => C1_SumAndMax

C1_Witness ==
  /\ DirDone
  /\ Len(merged) = 2
  /\ me.fields[StdOut] = 8
  /\ merged[1].leaf.fields[ZeroTimeStamp] # merged[2].leaf.fields[ZeroTimeStamp]


RECURSIVE MergeAll(_, _, _)
\* merge_leaf applied to the leaves of ls in order, starting from self
MergeAll(self, ls, checks) ==
  IF ls = << >> THEN [panic |-> FALSE, me |-> self]
  ELSE LET m == merge_leaf(self, Head(ls).leaf, checks)
       IN  IF m.panic THEN m ELSE MergeAll(m.me, Tail(ls), checks)

Readable(o) == o.open = "Ok" /\ ~o.meta_err /\ ~o.is_dir /\ o.mtime >= 0

\* a step of read_dir that tries a candidate whose open answers "not found"
NotFoundStep == mode = "dir" /\ pc = "open" /\ fs[idx].open = "NotFound"

\* C2: a "not found" candidate never fails read_dir: the step leaves the
\* snapshot as it is and goes on to the next candidate (or returns Ok after
\* the last); and when read_dir has returned Ok, every candidate that is
\* there was merged, so with the root missing the snapshot is the
\* aggregation of the shards.
C2_NotFoundIsSkipped ==
  /\ [][NotFoundStep =>
          /\ me' = me /\ merged' = merged /\ err' = err
          /\ IF idx = NumCandidates - 1 THEN pc' = "done"
             ELSE pc' = "open" /\ idx' = idx + 1]_vars
  /\ [](DirDone =>
          /\ MergedPaths = { p \in Paths : fs[p].open # "NotFound" }
          /\ Len(open_log) = NumCandidates
          /\ me = MergeAll(CacheDir_default, merged, overflow_checks).me)

C2_Witness ==
  /\ DirDone
  /\ fs[0].open = "NotFound"
  /\ Len(merged) = 2
  /\ me.fields[StdOut] = 8

RECURSIVE Lines(_)
\* the lines of bytes as read_file sees them: cut by read_line, trimmed
Lines(bytes) ==
  IF bytes = << >> THEN << >>
  ELSE LET r == read_line(bytes) IN << trim_line(r.buf) >> \o Lines(r.rest)

Min(a, b) == IF a < b THEN a ELSE b

\* the 1-based number of the first of the lines ls, among those read_file
\* can reach (one per field), that does not parse; 0 when they all parse
FirstBad(ls) ==
  LET k == Min(Len(ls), NumFields)
      bad == { i \in 1 .. k : ~parse_u64(ls[i]).ok }
  IN  IF bad = {} THEN 0 ELSE CHOOSE i \in bad : \A j \in bad : i <= j

\* line i (0-based) of o is the first that does not parse, and no read_line
\* call fails before it is read
FirstBadLine(o, i) == FirstBad(Lines(o.bytes)) = i + 1 /\ o.read_err_at \notin 0 .. i

\* the error e is the one reading path p fails with
IsErrorOf(e, p) ==
  LET o == fs[p]
  IN  IF o.open # "Ok" THEN e.kind = "IoError" /\ e.io = o.open
      ELSE IF o.meta_err THEN e.kind = "IoError" /\ e.io = "Other"
      ELSE IF o.is_dir THEN e.kind = "CacheLeafNonFile" /\ e.input_path = p
      ELSE IF o.mtime < 0 THEN e.kind = "SysTime"
      ELSE LET ls == Lines(o.bytes)
               b == FirstBad(ls)
           IN  \/ /\ e.kind = "ParseU64Error" /\ e.input_path = p
                  /\ FirstBadLine(o, e.input_line)
                  /\ e.input_value = ls[b]
               \/ /\ e.kind = "IoError" /\ e.io = "InvalidData"
                  /\ o.read_err_at \in 0 .. Min(Len(ls), NumFields)
                  /\ b = 0 \/ o.read_err_at < b

\* C3: when read_dir has failed, the error is that of the candidate it
\* stopped at, it is not "not found", every earlier candidate was not found
\* or merged, no later candidate was opened, and nothing follows: no
\* snapshot is returned.
C3_FirstErrorAborts ==
  /\ []((mode = "dir" /\ pc = "failed") =>
          /\ ~(err.kind = "IoError" /\ err.io = "NotFound")
          /\ IsErrorOf(err, idx)
          /\ open_log = [i \in 1 .. idx + 1 |-> i - 1]
          /\ \A p \in 0 .. idx - 1 : fs[p].open = "NotFound" \/ p \in MergedPaths
          /\ handles = {})
  /\ [][pc # "failed"]_vars
  /\ []((mode = "dir" /\ pc \in {"done", "written"}) =>
          \A p \in Paths : fs[p].open = "NotFound" \/ Readable(fs[p]))

C3_Witness ==
  /\ mode = "dir" /\ pc = "failed"
  /\ idx = 8
  /\ err.kind = "ParseU64Error"
  /\ Len(merged) = 1
  /\ ~Readable(fs[16])

RECURSIVE MaxMtimeOf(_)
MaxMtimeOf(ls) ==
  IF ls = << >> THEN 0
  ELSE LET m == MaxMtimeOf(Tail(ls))
           t == fs[Head(ls).path].mtime
       IN  IF t > m THEN t ELSE m

\* C4: the snapshot's mtime is the maximum of the mtimes of the leaves
\* merged so far (0 when there is none), and it never decreases.
C4_MtimeIsMax ==
  /\ [](mode = "dir" => me.mtime = MaxMtimeOf(merged))
  /\ [][me'.mtime >= me.mtime]_vars

C4_Witness ==
  /\ DirDone
  /\ Len(merged) = 2
  /\ fs[merged[1].path].mtime > fs[merged[2].path].mtime
  /\ me.mtime = fs[merged[1].path].mtime

Permutations(n) == { f \in [1 .. n -> 1 .. n] : \A i, j \in 1 .. n : f[i] = f[j] => i = j }

\* C5: merging the leaves read in any order gives the snapshot that the
\* reference order gave.
C5_OrderIndependent ==
  DirDone =>
    \A f \in Permutations(Len(merged)) :
      LET r == MergeAll(CacheDir_default, [i \in 1 .. Len(merged) |-> merged[f[i]]],
                        overflow_checks)
      IN  ~r.panic /\ r.me = me

C5_Witness ==
  /\ DirDone
  /\ Len(merged) = 3
  /\ merged[1].leaf # merged[2].leaf
  /\ merged[1].leaf.fields[ZeroTimeStamp] > merged[3].leaf.fields[ZeroTimeStamp]
  /\ fs[merged[1].path].mtime > fs[merged[3].path].mtime


\* the read of path p has returned
Finished(p) ==
  /\ \E k \in 1 .. Len(open_log) : open_log[k] = p
  /\ ~(p = idx /\ pc = "lines")

\* the read of path p has returned this error to the caller
FailedWith(p) == pc = "failed" /\ idx = p

\* l holds, field by field, the values of the lines ls and zero after them
HoldsLines(l, ls) ==
  \A i \in 0 .. NumFields - 1 :
    l.fields[i] = IF i < Len(ls) THEN parse_u64(ls[i + 1]).v ELSE 0

ShortFile(o) == Len(Lines(o.bytes)) <= NumFields

\* C6: a leaf read from a file of n <= 32 lines holds line i in the field of
\* ordinal i for i < n and zero in the others, and a file whose lines all
\* parse is read without error however few lines it has.
C6_ShortFileZeroFilled ==
  /\ (mode = "leaf" /\ pc = "done" /\ ShortFile(fs[0]))
       => HoldsLines(leaf, Lines(fs[0].bytes))
  /\ \A k \in 1 .. Len(merged) :
       ShortFile(fs[merged[k].path])
         => HoldsLines(merged[k].leaf, Lines(fs[merged[k].path].bytes))
  /\ \A p \in Paths :
       (Finished(p) /\ Readable(fs[p]) /\ fs[p].read_err_at = -1
          /\ FirstBad(Lines(fs[p].bytes)) = 0)
         => ~FailedWith(p)

C6_Witness ==
  /\ mode = "leaf" /\ pc = "done"
  /\ Len(Lines(fs[0].bytes)) = 3
  /\ leaf.fields[Status] = 5
  /\ leaf.fields[StdOut] = 3
  /\ leaf.fields[Error] = 0

\* C7: when line i < 32 of a file is the first that does not parse, the
\* read of that path fails with ParseU64Error carrying i, the text of the
\* line without its terminator, and the path.
C7_ParseErrorNamesLine ==
  \A p \in Paths :
    (Finished(p) /\ Readable(fs[p]))
      => LET ls == Lines(fs[p].bytes)
             b == FirstBad(ls)
         IN  (b > 0 /\ fs[p].read_err_at \notin 0 .. b - 1)
               => /\ FailedWith(p)
                  /\ err.kind = "ParseU64Error"
                  /\ err.input_line = b - 1
                  /\ err.input_value = ls[b]
                  /\ err.input_path = p

C7_Witness ==
  /\ mode = "leaf" /\ pc = "failed"
  /\ err.kind = "ParseU64Error"
  /\ err.input_line = NumFields - 1
  /\ err.input_value = << "5", " " >>

IsDirectory(o) == o.open = "Ok" /\ ~o.meta_err /\ o.is_dir

\* C8: the read of a path that is a directory fails with CacheLeafNonFile
\* carrying the path, without one read_line call; the loop is never entered
\* with a directory.
C8_DirectoryRejected ==
  /\ \A p \in Paths :
       (Finished(p) /\ IsDirectory(fs[p]))
         => /\ FailedWith(p)
            /\ err.kind = "CacheLeafNonFile"
            /\ err.input_path = p
            /\ line_reads = 0
            /\ handles = {}
  /\ pc = "lines" => ~fs[idx].is_dir

C8_Witness ==
  /\ mode = "leaf" /\ pc = "failed"
  /\ fs[0].is_dir
  /\ err.kind = "CacheLeafNonFile"

NeverShow(f) == HasBit(metadata(f).flags, FLAG_NEVER)

AlwaysShow(f) == HasBit(metadata(f).flags, FLAG_ALWAYS)

RECURSIVE Filter(_, _)
\* the fields of seq that are in the set keep, in the order of seq
Filter(seq, keep) ==
  IF seq = << >> THEN << >>
  ELSE IF Head(seq) \in keep THEN << Head(seq) >> \o Filter(Tail(seq), keep)
  ELSE Filter(Tail(seq), keep)

IsPrefix(a, b) == Len(a) <= Len(b) /\ a = SubSeq(b, 1, Len(a))

RawShown == Filter(FIELD_DISPLAY_ORDER, { f \in CacheField : ~NeverShow(f) })

RawExpected(c) ==
  << "stats_updated_timestamp\t" \o to_string(c.mtime) >>
    \o [i \in 1 .. Len(RawShown) |->
          metadata(RawShown[i]).id \o "\t" \o to_string(c.fields[RawShown[i]])]

\* C9: what write_raw has written when it returns Ok is the header and then
\* one "<id>\t<value>" line for each field not flagged NeverShow, in display
\* order, whatever the values; when the sink fails, a prefix of that.
C9_WriteRawLines ==
  wres.writer = "write_raw" =>
    /\ wres.res = "Ok" => out = RawExpected(Collection)
    /\ wres.res # "Ok" => IsPrefix(out, RawExpected(Collection)) /\ out # RawExpected(Collection)

C9_Witness ==
  /\ wres = [writer |-> "write_raw", res |-> "Ok"]
  /\ Collection.fields[ObsoleteMaxFiles] # 0
  /\ Collection.fields[NoInput] = 0
  /\ Collection.fields[NumCleanUps] = 0
  /\ Len(out) = 30

PrettyShown(c) ==
  Filter(FIELD_DISPLAY_ORDER,
         { f \in CacheField : ~NeverShow(f) /\ (c.fields[f] # 0 \/ AlwaysShow(f)) })

PrettyExpected(c) ==
  [i \in 1 .. Len(PrettyShown(c)) |->
     PrettyLine(metadata(PrettyShown(c)[i]).message,
                format_value(PrettyShown(c)[i], c.fields[PrettyShown(c)[i]]).s)]

\* C10: what write_pretty has written after its header when it returns Ok
\* is one line for each field that is not flagged NeverShow and is non-zero
\* or flagged AlwaysShow, in display order.
C10_WritePrettyLines ==
  (wres.writer = "write_pretty" /\ wres.res = "Ok") =>
    /\ Len(out) >= 1
    /\ Tail(out) = PrettyExpected(Collection)

C10_Witness ==
  /\ wres = [writer |-> "write_pretty", res |-> "Ok"]
  /\ Collection.fields[ObsoleteMaxFiles] # 0
  /\ Collection.fields[StdOut] # 0
  /\ Collection.fields[NoInput] = 0
  /\ Collection.fields[NumCleanUps] = 0


(***************************************************************************)
(* C11: every call of iter() on a CacheLeaf or a CacheDir yields 32 pairs, *)
(* one for each CacheField and none twice, in the order of                 *)
(* FIELD_DISPLAY_ORDER, each with the value the collection holds for that  *)
(* field; a second call yields the same sequence, and a call of iter()     *)
(* leaves the collection as it was.                                        *)
(***************************************************************************)
KindsOf(it) == [i \in 1 .. Len(it) |-> it[i][1]]

IterYield(it) ==
  /\ Len(it) = Cardinality(CacheField)
  /\ { it[i][1] : i \in 1 .. Len(it) } = CacheField
  /\ \A i, j \in 1 .. Len(it) : it[i][1] = it[j][1] => i = j
  /\ KindsOf(it) = FIELD_DISPLAY_ORDER
  /\ \A i \in 1 .. Len(it) : it[i][2] = Collection.fields[it[i][1]]

IterStep == iters' # iters => leaf' = leaf /\ me' = me

C11_IterYieldsAllInDisplayOrder ==
  /\ [](\A k \in 1 .. Len(iters) : IterYield(iters[k]) /\ iters[k] = iters[1])
  /\ [][IterStep]_vars

\* iter() was called twice on a result that holds nonzero values
C11_Witness ==
  /\ Len(iters) = MaxIters
  /\ \E f \in CacheField : f # ZeroTimeStamp /\ Collection.fields[f] > 0
  /\ Collection.fields[ZeroTimeStamp] > 0

(***************************************************************************)
(* C12: FIELD_DATA_ORDER is the identity on ordinals: the field at         *)
(* position i (from 0) has ordinal i for each of the 32 positions, so the  *)
(* step of read_file that reads line i stores its value in slot i and      *)
(* leaves the other slots alone; ordinal 0 is None and ordinal 31 is       *)
(* ZeroTimeStamp.                                                          *)
(***************************************************************************)
DataOrderIsIdentity ==
  /\ Len(FIELD_DATA_ORDER) = Cardinality(CacheField)
  /\ \A i \in 0 .. Len(FIELD_DATA_ORDER) - 1 : as_usize(FIELD_DATA_ORDER[i + 1]) = i
  /\ as_usize(None) = 0
  /\ as_usize(ZeroTimeStamp) = 31

\* a step of the loop that stored a value: the line it read is line field_i
LineStored ==
  (pc = "lines" /\ field_i' = field_i + 1)
    => LET r == read_line(rest)
           v == parse_u64(trim_line(r.buf)).v
       IN  /\ line_reads = field_i
           /\ leaf'.fields = [leaf.fields EXCEPT ![field_i] = v]

C12_DataOrderIsIdentity == []DataOrderIsIdentity /\ [][LineStored]_vars

\* line 31 of a file was stored in the slot of ZeroTimeStamp, and line 1 in
\* the slot of StdOut, with a value unlike those of its neighbours
C12_Witness ==
  /\ mode = "leaf" /\ pc = "done"
  /\ field_i = 32
  /\ leaf.fields[ZeroTimeStamp] = 5
  /\ leaf.fields[StdOut] = 3
  /\ leaf.fields[None] = 3

(***************************************************************************)
(* C13: FIELD_DISPLAY_ORDER holds the same 32 fields as FIELD_DATA_ORDER,  *)
(* each once; its first entry is ZeroTimeStamp and its last is None; and   *)
(* as a sequence it differs from FIELD_DATA_ORDER.  What iter() yields     *)
(* follows it.                                                             *)
(***************************************************************************)
Range(s) == { s[i] : i \in 1 .. Len(s) }

IsInjective(s) == \A i, j \in 1 .. Len(s) : s[i] = s[j] => i = j

DisplayOrderIsPermutation ==
  /\ Len(FIELD_DISPLAY_ORDER) = Len(FIELD_DATA_ORDER)
  /\ Range(FIELD_DISPLAY_ORDER) = Range(FIELD_DATA_ORDER)
  /\ Range(FIELD_DISPLAY_ORDER) = CacheField
  /\ IsInjective(FIELD_DISPLAY_ORDER)
  /\ IsInjective(FIELD_DATA_ORDER)
  /\ FIELD_DISPLAY_ORDER[1] = ZeroTimeStamp
  /\ FIELD_DISPLAY_ORDER[Len(FIELD_DISPLAY_ORDER)] = None
  /\ FIELD_DISPLAY_ORDER # FIELD_DATA_ORDER

DataOrderKinds == Range(FIELD_DATA_ORDER)

C13_DisplayOrderIsPermutation ==
  /\ DisplayOrderIsPermutation
  /\ \A k \in 1 .. Len(iters) :
       /\ iters[k][1][1] = ZeroTimeStamp
       /\ iters[k][Len(iters[k])][1] = None
       /\ Range(KindsOf(iters[k])) = DataOrderKinds

\* a file read in data order was walked in display order: the value of its
\* last line comes first and the value of its first line comes last
C13_Witness ==
  /\ mode = "leaf" /\ pc = "done"
  /\ Len(iters) = 1
  /\ leaf.fields[ZeroTimeStamp] = 5 /\ leaf.fields[None] = 3
  /\ iters[1][1] = << ZeroTimeStamp, 5 >>
  /\ iters[1][32] = << None, 3 >>

(***************************************************************************)
(* C14: a CacheFieldData has 32 slots, all zero in a fresh one; after      *)
(* set_field(f, v), get_field(f) is v and get_field(g) is what it was for  *)
(* every other field g; and get_field answers for every field after any    *)
(* calls of set_field: each ordinal is the index of a slot.                *)
(***************************************************************************)
C14_SetFieldFrame ==
  /\ DOMAIN store = 0 .. 31
  /\ \A g \in CacheField :
       /\ as_usize(g) \in DOMAIN store
       /\ get_field(store, g) \in 0 .. U64_MAX
  /\ last_set.calls = 0 => \A g \in CacheField : get_field(store, g) = 0
  /\ last_set.calls > 0 =>
       /\ get_field(store, last_set.field) = last_set.value
       /\ \A g \in CacheField \ {last_set.field} :
            get_field(store, g) = get_field(last_set.before, g)

\* a slot that held a value was set again, next to another slot that holds one
C14_Witness ==
  /\ last_set.calls = 2
  /\ last_set.field = StdOut /\ last_set.value = 5
  /\ get_field(last_set.before, StdOut) = U64_MAX
  /\ get_field(store, StdOut) = 5

(***************************************************************************)
(* C15: for TotalSize, format_value(v) is the integer v with " Kb" when    *)
(* v < 10*1024, v/1024 to the nearest hundredth with " Mb" when            *)
(* 10*1024 <= v < 10*1024*1024, and v/1024/1024 to the nearest hundredth   *)
(* with " Gb" otherwise; 0 gives "0 Kb", 10000 "10000 Kb", 15000           *)
(* "14.65 Mb", 1500000 "1464.84 Mb" and 15000000 "14.31 Gb".               *)
(***************************************************************************)
Abs(n) == IF n < 0 THEN 0 - n ELSE n

\* the hundredths h for which h/100 is v/den rounded to two decimals (two of
\* them when v/den lies halfway)
NearestHundredths(v, den) ==
  LET q == (100 * v) \div den
  IN  { h \in {q, q + 1} : 2 * Abs(h * den - 100 * v) <= den }

TwoDecimals(h) == to_string(h \div 100) \o "." \o TwoDigits(h % 100)

SizeFixtures ==
  [v \in {0, 10000, 15000, 1500000, 15000000} |->
     CASE v = 0 -> "0 Kb"
       [] v = 10000 -> "10000 Kb"
       [] v = 15000 -> "14.65 Mb"
       [] v = 1500000 -> "1464.84 Mb"
       [] v = 15000000 -> "14.31 Gb"]

C15_SizeUnits ==
  (fmt_out.done /\ fmt_in.field = TotalSize)
    => LET v == fmt_in.value
           s == fmt_out.s
       IN  /\ ~fmt_out.panic
           /\ v < 10 * 1024 => s = to_string(v) \o " Kb"
           /\ (10 * 1024 <= v /\ v < 10 * 1024 * 1024)
                => \E h \in NearestHundredths(v, 1024) : s = TwoDecimals(h) \o " Mb"
           /\ 10 * 1024 * 1024 <= v
                => \E h \in NearestHundredths(v, 1024 * 1024) : s = TwoDecimals(h) \o " Gb"
           /\ v \in DOMAIN SizeFixtures => s = SizeFixtures[v]

\* a size just under the Gb threshold was formatted, in Mb
C15_Witness ==
  /\ fmt_out.done /\ fmt_in.field = TotalSize
  /\ fmt_in.value = 10 * 1024 * 1024 - 1
  /\ fmt_out.s = "10240.00 Mb"

(***************************************************************************)
(* C16: format_value returns a string for every field and every u64 value  *)
(* and never fails; for ZeroTimeStamp a value that is no valid timestamp   *)
(* gives "<value> (ts)"; for the fields of format None the string is the   *)
(* decimal form of the value.  (Not so: a ZeroTimeStamp value that fits    *)
(* i64 but is beyond the times chrono can hold panics in Local.timestamp.) *)
(***************************************************************************)
ValidTimestamp(v) == v <= CHRONO_MAX

C16_FormatValueTotal ==
  fmt_out.done
    => /\ ~fmt_out.panic
       /\ metadata(fmt_in.field).format = "None"
            => fmt_out.s = to_string(fmt_in.value)
       /\ (fmt_in.field = ZeroTimeStamp /\ ~ValidTimestamp(fmt_in.value))
            => fmt_out.s = to_string(fmt_in.value) \o " (ts)"

\* what holds instead: the fallback is given exactly to the values above
\* i64::MAX, and the values between chrono's range and i64::MAX panic
C16_FallbackAboveI64Max ==
  fmt_out.done
    => /\ metadata(fmt_in.field).format = "None"
            => ~fmt_out.panic /\ fmt_out.s = to_string(fmt_in.value)
       /\ fmt_in.field = ZeroTimeStamp
            => /\ fmt_in.value > I64_MAX
                    => ~fmt_out.panic /\ fmt_out.s = to_string(fmt_in.value) \o " (ts)"
               /\ fmt_out.panic <=> (CHRONO_MAX < fmt_in.value /\ fmt_in.value <= I64_MAX)

(***************************************************************************)
(* C17: one read_dir opens at most 17 files, in the order dir/stats,       *)
(* dir/0/stats, ..., dir/f/stats (paths 0, 1, ..., 16); at most one file   *)
(* is open at any moment; and none is open when read_dir has returned, be  *)
(* it a snapshot or an error.                                              *)
(***************************************************************************)
CandidateOrder == [i \in 1 .. NumCandidates |-> i - 1]

Returned == pc \in {"done", "failed", "written"}

C17_OneFileAtATime ==
  mode = "dir"
    => /\ Len(open_log) <= 17
       /\ IsPrefix(open_log, CandidateOrder)
       /\ Cardinality(handles) <= 1
       /\ handles \subseteq {idx}
       /\ Returned => handles = {}

\* read_dir returned a snapshot of three files after trying all 17 paths
C17_Witness ==
  /\ mode = "dir" /\ pc = "done"
  /\ Len(open_log) = 17
  /\ Len(merged) = 3
  /\ handles = {}

(***************************************************************************)
(* C18: the value read from a line does not depend on its terminator, LF,  *)
(* CRLF or, for the last line, none: one trailing LF and at most one CR    *)
(* right before it are removed and nothing else, so a line whose text      *)
(* still holds a CR, a space or any other character that is not a digit    *)
(* fails the read with a parse error.  (Not so as it stands: u64's parser  *)
(* accepts one leading '+'.  With that exception it holds.)                *)
(***************************************************************************)
RECURSIVE RawLines(_)
\* the lines of a file with their terminators
RawLines(bytes) ==
  IF bytes = << >> THEN << >>
  ELSE LET r == read_line(bytes) IN << r.buf >> \o RawLines(r.rest)

\* a line without its LF and without one CR right before that LF
StripTerminator(raw) ==
  LET n == Len(raw)
  IN  IF n >= 2 /\ raw[n] = "\n" /\ raw[n - 1] = "\r" THEN SubSeq(raw, 1, n - 2)
      ELSE IF n >= 1 /\ raw[n] = "\n" THEN SubSeq(raw, 1, n - 1)
      ELSE raw

\* the lines read_file can reach, without their terminators
ReachedTexts(o) ==
  LET raw == RawLines(o.bytes)
  IN  [i \in 1 .. Min(Len(raw), Cardinality(CacheField)) |-> StripTerminator(raw[i])]

RECURSIVE DigitsValue(_, _)
\* the number a run of digits stands for, or -1 when it is not one
DigitsValue(t, acc) ==
  IF t = << >> THEN acc
  ELSE IF ~IsDigit(Head(t)) THEN -1
  ELSE DigitsValue(Tail(t), 10 * acc + DigitVal(Head(t)))

IsNumber(t) == t # << >> /\ DigitsValue(t, 0) \in 0 .. U64_MAX

HasNonDigit(t) == \E i \in 1 .. Len(t) : ~IsDigit(t[i])

\* a '+' in front of a digit
IsLeadingPlus(t, i) == i = 1 /\ t[1] = "+" /\ Len(t) >= 2 /\ IsDigit(t[2])

HasNonDigitButPlus(t) ==
  \E i \in 1 .. Len(t) : ~IsDigit(t[i]) /\ ~IsLeadingPlus(t, i)

\* the leaves that reads of path p have returned
LeavesOf(p) ==
  { merged[k].leaf : k \in { j \in 1 .. Len(merged) : merged[j].path = p } }
    \cup IF mode = "leaf" /\ p = 0 /\ pc \in {"done", "written"} THEN {leaf} ELSE {}

\* a read of p has returned and met no I/O error
ReadThrough(p) == Finished(p) /\ Readable(fs[p]) /\ fs[p].read_err_at = -1

\* the value of each line is that of its digits, whatever ends the line
ValuesOfTexts(p, ts) ==
  (\A i \in DOMAIN ts : IsNumber(ts[i]))
    => /\ ~FailedWith(p)
       /\ \A l \in LeavesOf(p) :
            \A i \in DOMAIN ts : l.fields[i - 1] = DigitsValue(ts[i], 0)

\* the claim as it stands
C18_TerminatorOnly ==
  \A p \in Paths :
    ReadThrough(p)
      => LET ts == ReachedTexts(fs[p])
         IN  /\ ValuesOfTexts(p, ts)
             /\ (\E i \in DOMAIN ts : HasNonDigit(ts[i]))
                  => FailedWith(p) /\ err.kind = "ParseU64Error"

\* the claim with the exception of one leading '+'
C18_TerminatorOnlyButPlus ==
  \A p \in Paths :
    ReadThrough(p)
      => LET ts == ReachedTexts(fs[p])
         IN  /\ ValuesOfTexts(p, ts)
             /\ (\E i \in DOMAIN ts : HasNonDigitButPlus(ts[i]))
                  => FailedWith(p) /\ err.kind = "ParseU64Error"

\* a file of CRLF lines whose last line has no terminator was read, and the
\* last line gave its value
C18_Witness ==
  /\ mode = "leaf" /\ pc = "done"
  /\ LET raw == RawLines(fs[0].bytes)
     IN  /\ Len(raw) = 3
         /\ raw[1] = << "3", "\r", "\n" >>
         /\ raw[3] = << "5" >>
  /\ leaf.fields[StdOut] = 3
  /\ leaf.fields[Status] = 5

(***************************************************************************)
(* C19: the additive merge never wraps around and never fails: when        *)
(* read_dir has succeeded, every field other than ZeroTimeStamp is in the  *)
(* snapshot at least what it is in each merged leaf, whatever u64 values   *)
(* the leaves hold.  (Not so: the sum is an unchecked u64 addition, which  *)
(* wraps, or panics in a build with overflow checks.)                      *)
(***************************************************************************)
C19_MergeNeverWraps ==
  mode = "dir"
    => /\ pc # "panicked"
       /\ pc \in {"done", "written"}
            => \A k \in 1 .. Len(merged) :
                 \A f \in CacheField \ {ZeroTimeStamp} :
                   me.fields[f] >= merged[k].leaf.fields[f]

\* what holds instead: the snapshot is the sum modulo 2^64, and a build with
\* overflow checks panics exactly when a sum leaves the u64 range
C19_MergeWrapsModulo ==
  /\ DirDone
       => \A f \in CacheField \ {ZeroTimeStamp} :
            me.fields[f] = SumOf(merged, f) % U64_MOD
  /\ (DirDone /\ overflow_checks)
       => \A f \in CacheField : SumOf(merged, f) <= U64_MAX

(***************************************************************************)
(* C20: read_file reads at most 32 lines: for a file of more than 32       *)
(* lines the result, success with its 32 values or the error, is that of   *)
(* its first 32 lines, and what follows them, numeric or not, causes no    *)
(* error.                                                                  *)
(***************************************************************************)
Head32(ls) == SubSeq(ls, 1, 32)

C20_AtMost32Lines ==
  /\ line_reads <= 32
  /\ \A p \in Paths :
       (Finished(p) /\ Readable(fs[p]) /\ fs[p].read_err_at \notin 0 .. 31)
         => LET ls == Lines(fs[p].bytes)
                b == FirstBad(Head32(ls))
            IN  Len(ls) > 32
                  => /\ b = 0 => /\ ~FailedWith(p)
                                 /\ \A l \in LeavesOf(p) :
                                      \A i \in 0 .. 31 : l.fields[i] = parse_u64(ls[i + 1]).v
                     /\ b > 0 => /\ FailedWith(p)
                                 /\ err.kind = "ParseU64Error"
                                 /\ err.input_line = b - 1
                                 /\ err.input_value = ls[b]

\* a file of 33 lines whose last line is no number was read without error
C20_Witness ==
  /\ mode = "leaf" /\ pc = "done"
  /\ LET ls == Lines(fs[0].bytes)
     IN  Len(ls) = 33 /\ ls[33] = << "x" >>
  /\ line_reads = 32
  /\ leaf.fields[ZeroTimeStamp] = 3
  /\ rest = << "x", "\n" >>

(***************************************************************************)
(* C21: in the monitor, over any two successive snapshots, each field that *)
(* is not flagged never and whose value differs is reported with the       *)
(* difference new - old, computed without unsigned underflow, also when    *)
(* the counter decreased; and after each round the new snapshot is the old *)
(* one of the next.  (Not so: new - old is a u64 subtraction, which panics *)
(* or wraps around when the counter decreased.)                            *)
(***************************************************************************)
RoundEnded == mode = "monitor" /\ rounds > 0 /\ mon_pc \in {"loop", "sub_panic"}

Changed == { f \in CacheField : ~NeverShow(f) /\ new_cd.fields[f] # prev_cd.fields[f] }

Decreased == { f \in CacheField : ~NeverShow(f) /\ new_cd.fields[f] < prev_cd.fields[f] }

Reported(f, d) ==
  \E k \in 1 .. Len(reports) :
    /\ reports[k].field = f
    /\ reports[k].old = prev_cd.fields[f]
    /\ reports[k].value = new_cd.fields[f]
    /\ reports[k].diff = d

C21_DiffWithoutUnderflow ==
  RoundEnded
    => /\ mon_pc # "sub_panic"
       /\ \A f \in Changed : Reported(f, new_cd.fields[f] - prev_cd.fields[f])
       /\ \A k \in 1 .. Len(reports) : reports[k].field \in Changed
       /\ cd = new_cd

\* what holds instead: a round in which no shown counter decreased reports
\* the differences and keeps the new snapshot; one in which a counter
\* decreased panics in a build with overflow checks and reports the
\* difference plus 2^64 in one without
C21_DiffUnlessDecreased ==
  RoundEnded
    => /\ Decreased = {} => C21_DiffWithoutUnderflow
       /\ mon_pc = "sub_panic" <=> (overflow_checks /\ Decreased # {})
       /\ mon_pc = "sub_panic" => cd = prev_cd
       /\ mon_pc = "loop"
            => /\ cd = new_cd
               /\ \A f \in Decreased :
                    Reported(f, new_cd.fields[f] - prev_cd.fields[f] + U64_MOD)

============================================================================
